---- MODULE Spec2Model ----
(***************************************************************************)
(* Model of the PixelLab gallery generator:                                *)
(*   - scripts/generate_gallery.py : the batch driver (generate_gallery,   *)
(*     save_base64_image, the command line dispatch);                      *)
(*   - pixellab_client.py : PixelLabClient (_make_request, generate_image, *)
(*     get_balance, _poll_background_job).                                 *)
(* The remote service, the file system and the clock are the environment:  *)
(* their answers are drawn nondeterministically from small sets.           *)
(***************************************************************************)
EXTENDS Integers, Sequences, FiniteSets, TLC

VARIABLES
    args,               \* command line: "list", "dry_run" or "full"
    env_api_key,        \* os.getenv("PIXELLAB_API_KEY"): "<unset>", "" or a key
    requests_installed, \* whether "import requests" succeeds
    pc,                 \* position of the driver
    exit_code,          \* -1 while running, else the process exit status
    images_dir_exists,  \* IMAGES_DIR on disk
    mkdir_calls,        \* number of IMAGES_DIR.mkdir calls of this run
    files,              \* IMAGES_DIR: file name -> "absent" | "incomplete" | "complete"
    writes,             \* file names opened for writing by this run, in order
    http_log,           \* HTTP requests issued by this run, in order
    api_calls,          \* ids of the items generate_image was called for, in order
    balance_status,     \* "unchecked" | "ok" | "failed"
    metadata,           \* metadata["images"], the in-memory manifest list
    metadata_file,      \* METADATA_FILE on disk
    successful,
    failed,
    idx,                \* 1-based index of the loop over GALLERY_IMAGES
    response,           \* the GenerationResult of the current item
    log_line,           \* last progress line printed for the current item
    poll_pc,            \* position of _poll_background_job
    max_wait,
    start_time,
    now,                \* time.time()
    poll_requests,      \* status requests issued by _poll_background_job
    poll_seen,          \* status responses received, in order, each with the
                        \* seconds elapsed since start_time when it arrived
    poll_result         \* what _poll_background_job returned or raised

driver_vars == <<args, env_api_key, requests_installed, pc, exit_code,
                 images_dir_exists, mkdir_calls, files, writes, http_log,
                 api_calls, balance_status, metadata, metadata_file,
                 successful, failed, idx, response, log_line>>

poll_vars == <<poll_pc, max_wait, start_time, now, poll_requests, poll_seen,
               poll_result>>

vars == <<driver_vars, poll_vars>>

----------------------------------------------------------------------------
(* Bounds of the model. *)

\* longest base64 payload string the service returns
MaxB64Len == 4

\* largest max_wait handed to _poll_background_job
MaxWaitBound == 5

\* longest time one status request takes, in seconds
MaxRequestDelay == 2

\* how much longer than asked time.sleep may take, in seconds
MaxSleepJitter == 1

----------------------------------------------------------------------------
(* GALLERY_IMAGES, the paths and the file names. *)

GALLERY_IMAGES ==
    << [id |-> "wizard",
        description |-> "a mysterious pixel art wizard with a glowing staff and purple robes, fantasy RPG style",
        width |-> 128, height |-> 128, seed |-> 42],
       [id |-> "knight",
        description |-> "a brave pixel art knight in shining armor with a sword and shield, retro game style",
        width |-> 128, height |-> 128, seed |-> 123],
       [id |-> "dragon",
        description |-> "a fierce pixel art dragon breathing fire, classic 16-bit RPG style",
        width |-> 128, height |-> 128, seed |-> 456],
       [id |-> "spaceship",
        description |-> "a sleek pixel art spaceship with glowing engines, retro sci-fi arcade style",
        width |-> 128, height |-> 128, seed |-> 789],
       [id |-> "robot",
        description |-> "a friendly pixel art robot with antenna and digital eyes, cute retro style",
        width |-> 128, height |-> 128, seed |-> 101],
       [id |-> "treasure",
        description |-> "an open pixel art treasure chest overflowing with gold coins and gems, classic RPG style",
        width |-> 128, height |-> 128, seed |-> 202] >>

NumImages == Len(GALLERY_IMAGES)

Digit(d) ==
    CASE d = 0 -> "0" [] d = 1 -> "1" [] d = 2 -> "2" [] d = 3 -> "3"
      [] d = 4 -> "4" [] d = 5 -> "5" [] d = 6 -> "6" [] d = 7 -> "7"
      [] d = 8 -> "8" [] d = 9 -> "9"

\* str(n) of a non-negative integer, as the f-string formats it
RECURSIVE IntToStr(_)
IntToStr(n) ==
    IF n < 10 THEN Digit(n) ELSE IntToStr(n \div 10) \o Digit(n % 10)

\* a slip in the f-string: the height is left out of the name
output_name_without_height(image_id, width, height) ==
    image_id \o "_" \o IntToStr(width) \o ".png"

\* output_path.name: f"{image_id}_{width}x{height}.png"
output_name(image_id, width, height) ==
    image_id \o "_" \o IntToStr(width) \o "x" \o IntToStr(height) \o ".png"

config_name(config) == output_name(config.id, config.width, config.height)

FileNames == { config_name(GALLERY_IMAGES[i]) : i \in 1..NumImages }

----------------------------------------------------------------------------
(* Strings handed to save_base64_image are sequences of one-character      *)
(* strings over a small alphabet: "Q" is a character of the base64         *)
(* alphabet (value 16), "=" is the pad and "," is the separator of a data  *)
(* URL prefix (and, for the decoder, a character outside the alphabet).    *)

B64Chars == {"Q", "=", ","}

RECURSIVE SeqsUpTo(_, _)
SeqsUpTo(S, n) ==
    IF n = 0 THEN { <<>> }
    ELSE LET shorter == SeqsUpTo(S, n - 1)
         IN  shorter \cup { Append(s, c) : s \in shorter, c \in S }

Payloads == SeqsUpTo(B64Chars, MaxB64Len)

\* index of the first "," of s at or after position i, or 0
RECURSIVE find_comma(_, _)
find_comma(s, i) ==
    IF i > Len(s) THEN 0
    ELSE IF s[i] = "," THEN i
    ELSE find_comma(s, i + 1)

\* base64_data.split(",")[1]: what lies between the first comma and the
\* second one (or the end of the string)
split_comma_1(s) ==
    LET first  == find_comma(s, 1)
        second == find_comma(s, first + 1)
    IN  IF second = 0 THEN SubSeq(s, first + 1, Len(s))
        ELSE SubSeq(s, first + 1, second - 1)

\* table_a2b_base64: the 6-bit value of a character, 64 when it is outside
\* the base64 alphabet
b64_value(c) == IF c = "Q" THEN 16 ELSE 64

\* binascii.a2b_base64 in its default, non-strict mode, which is what
\* base64.b64decode(s) calls: characters outside the alphabet are skipped, a
\* complete pad sequence ends the parse, and data characters left over at
\* the end raise binascii.Error.
RECURSIVE a2b_base64(_, _, _, _, _, _)
a2b_base64(s, i, quad_pos, pads, leftchar, out) ==
    IF i > Len(s)
    THEN [ok |-> quad_pos = 0, bytes |-> IF quad_pos = 0 THEN out ELSE <<>>]
    ELSE IF s[i] = "="
    THEN IF quad_pos >= 2 /\ quad_pos + pads + 1 >= 4
         THEN [ok |-> TRUE, bytes |-> out]
         ELSE a2b_base64(s, i + 1, quad_pos,
                         IF quad_pos >= 2 THEN pads + 1 ELSE pads,
                         leftchar, out)
    ELSE IF b64_value(s[i]) >= 64
    THEN a2b_base64(s, i + 1, quad_pos, pads, leftchar, out)
    ELSE LET v == b64_value(s[i])
         IN  CASE quad_pos = 0 ->
                    a2b_base64(s, i + 1, 1, 0, v, out)
               [] quad_pos = 1 ->
                    a2b_base64(s, i + 1, 2, 0, v % 16,
                               Append(out, leftchar * 4 + v \div 16))
               [] quad_pos = 2 ->
                    a2b_base64(s, i + 1, 3, 0, v % 4,
                               Append(out, leftchar * 16 + v \div 4))
               [] quad_pos = 3 ->
                    a2b_base64(s, i + 1, 0, 0, 0,
                               Append(out, leftchar * 64 + v))

b64decode(s) == a2b_base64(s, 1, 0, 0, 0, <<>>)

\* One element of the "images" list of a response: a string, or a JSON null.
StrImage(s) == [t |-> "str", v |-> s]
NullImage == [t |-> "null", v |-> <<>>]

\* The outcomes of open(output_path, "wb") and f.write(image_bytes).
IoOutcomes == {"ok", "open_fails", "write_fails"}

\* save_base64_image returning True although f.write raised
save_base64_image_ignoring_write_error(base64_data, io) ==
    IF base64_data.t # "str"
    THEN [ret |-> FALSE, file |-> "untouched"]
    ELSE LET data    == IF find_comma(base64_data.v, 1) # 0
                        THEN split_comma_1(base64_data.v)
                        ELSE base64_data.v
             decoded == b64decode(data)
         IN  IF ~decoded.ok THEN [ret |-> FALSE, file |-> "untouched"]
             ELSE IF io = "open_fails" THEN [ret |-> FALSE, file |-> "untouched"]
             ELSE IF io = "write_fails" THEN [ret |-> TRUE, file |-> "incomplete"]
             ELSE [ret |-> TRUE, file |-> "complete"]

\* save_base64_image(base64_data, output_path) under the file system outcome
\* io: the value returned and the state the file at output_path is left in
\* ("untouched" when the file was never opened).
save_base64_image(base64_data, io) ==
    IF base64_data.t # "str"
    THEN \* '"," in base64_data' raises TypeError, caught by the except
         [ret |-> FALSE, file |-> "untouched"]
    ELSE LET data    == IF find_comma(base64_data.v, 1) # 0
                        THEN split_comma_1(base64_data.v)
                        ELSE base64_data.v
             decoded == b64decode(data)
         IN  IF ~decoded.ok THEN [ret |-> FALSE, file |-> "untouched"]
             ELSE IF io = "open_fails" THEN [ret |-> FALSE, file |-> "untouched"]
             ELSE IF io = "write_fails" THEN [ret |-> FALSE, file |-> "incomplete"]
             ELSE [ret |-> TRUE, file |-> "complete"]

----------------------------------------------------------------------------
(* The remote service: what one HTTP exchange can come to. *)

JsonImages(t, v) == [t |-> t, v |-> v]

\* A response whose body parsed as JSON: "data" is missing, null or an
\* object whose "images" is missing, null or a list; "success" is missing,
\* "true" or "false".
Envelope(data_t, images, success) ==
    [kind |-> "json", data |-> [t |-> data_t, images |-> images],
     success |-> success]

\* requests.get / requests.post raising (no connection), or
\* response.raise_for_status() raising (a non-2xx status)
HttpFailures == { [Envelope("missing", JsonImages("missing", <<>>), "missing")
                     EXCEPT !.kind = k] : k \in {"transport_error", "http_error"} }

ImageLists ==
    { <<>>, <<NullImage>> }
        \cup { <<StrImage(p)>> : p \in Payloads }
        \cup { <<StrImage(p), StrImage(<<"Q">>)>> : p \in { <<>>, <<"Q">> } }

GenerateOutcomes ==
    HttpFailures
        \cup { Envelope("missing", JsonImages("missing", <<>>), "true"),
               Envelope("null", JsonImages("missing", <<>>), "true"),
               Envelope("obj", JsonImages("missing", <<>>), "true"),
               Envelope("obj", JsonImages("null", <<>>), "true") }
        \cup { Envelope("obj", JsonImages("list", l), "true") : l \in ImageLists }
        \cup { Envelope("obj", JsonImages("list", l), s) :
                 l \in { <<>>, <<StrImage(<<>>)>>, <<StrImage(<<"Q">>)>> },
                 s \in { "false", "missing" } }

BalanceOutcomes ==
    HttpFailures
        \cup { Envelope(d, JsonImages("missing", <<>>), "true") :
                 d \in { "missing", "null", "obj" } }

----------------------------------------------------------------------------
(* PixelLabClient *)

NoKey == "<unset>"

\* only None counts as missing: "if api_key is None"
is_not_none(k) == k # NoKey

\* Python truthiness of an optional string
Truthy(k) == k \notin { NoKey, "" }

\* PixelLabClient.__init__: self.api_key = api_key or os.getenv(...)
client_api_key(explicit, env) == IF Truthy(explicit) THEN explicit ELSE env

HttpRequest(method, endpoint, body) ==
    [method |-> method, endpoint |-> endpoint, body |-> body]

NoBody == [description |-> "", image_size |-> [width |-> 0, height |-> 0], seed |-> 0]

\* _make_request sending the request a second time after a non-2xx status
make_request_retrying(method, endpoint, body, api_key, installed, outcome) ==
    IF ~installed THEN [wire |-> <<>>, raised |-> TRUE, json |-> outcome]
    ELSE IF ~(api_key \notin { NoKey, "" })
    THEN [wire |-> <<>>, raised |-> TRUE, json |-> outcome]
    ELSE IF method \notin { "GET", "POST" }
    THEN [wire |-> <<>>, raised |-> TRUE, json |-> outcome]
    ELSE [wire |-> IF outcome.kind = "http_error"
                   THEN << [method |-> method, endpoint |-> endpoint, body |-> body],
                           [method |-> method, endpoint |-> endpoint, body |-> body] >>
                   ELSE << [method |-> method, endpoint |-> endpoint, body |-> body] >>,
          raised |-> outcome.kind # "json", json |-> outcome]

\* PixelLabClient._make_request: the requests that went out on the wire,
\* whether the call raised, and the parsed body it returned. It raises
\* before anything is sent when requests cannot be imported, when there is no
\* API key or when the method is neither GET nor POST.
make_request(method, endpoint, body, api_key, installed, outcome) ==
    IF ~installed THEN [wire |-> <<>>, raised |-> TRUE, json |-> outcome]
    ELSE IF ~Truthy(api_key) THEN [wire |-> <<>>, raised |-> TRUE, json |-> outcome]
    ELSE IF method \notin { "GET", "POST" }
    THEN [wire |-> <<>>, raised |-> TRUE, json |-> outcome]
    ELSE [wire |-> << HttpRequest(method, endpoint, body) >>,
          raised |-> outcome.kind # "json", json |-> outcome]

NoResponse ==
    [images |-> JsonImages("none", <<>>), usage |-> "{}", success |-> FALSE]

\* the JSON body generate_image posts
generate_payload(config) ==
    [description |-> config.description,
     image_size |-> [width |-> config.width, height |-> config.height],
     seed |-> config.seed]

\* PixelLabClient.generate_image: one POST, then the result is read out of
\* the envelope, a missing "data" or "images" defaulting to an empty one.
generate_image(config, api_key, installed, outcome) ==
    LET r == make_request("POST", "/generate-image-v2", generate_payload(config),
                          api_key, installed, outcome)
    IN  IF r.raised THEN [wire |-> r.wire, raised |-> TRUE, result |-> NoResponse]
        ELSE IF r.json.data.t = "null"
        THEN \* None.get("images", []) raises AttributeError
             [wire |-> r.wire, raised |-> TRUE, result |-> NoResponse]
        ELSE [wire |-> r.wire, raised |-> FALSE,
              result |->
                [images |-> IF r.json.data.t = "missing"
                               \/ r.json.data.images.t = "missing"
                            THEN JsonImages("list", <<>>)
                            ELSE r.json.data.images,
                 usage |-> "{}",
                 success |-> (r.json.success = "true")]]

\* PixelLabClient.get_balance: one GET; response.get("data", {}) cannot fail
get_balance(api_key, installed, outcome) ==
    LET r == make_request("GET", "/balance", NoBody, api_key, installed, outcome)
    IN  [wire |-> r.wire, raised |-> r.raised]

----------------------------------------------------------------------------
(* scripts/generate_gallery.py: the command line and generate_gallery *)

\* True while the value is a non-empty list: "not response.get('images')"
has_images(result) == result.images.t = "list" /\ result.images.v # <<>>

\* the entry generate_gallery appends to metadata["images"] (its
\* generated_at time stamp is left out)
metadata_entry(config) ==
    [id |-> config.id,
     filename |-> config_name(config),
     description |-> config.description,
     width |-> config.width,
     height |-> config.height,
     seed |-> config.seed]

NoManifest == [state |-> "absent", images |-> <<>>]

\* "for config in GALLERY_IMAGES": where the loop goes after the item at
\* index i
after_item(i) == IF i < NumImages THEN "generate" ELSE "save_metadata"

\* no try/except around the body of the loop: the exception ends the run
after_exception_propagating(i) == "crashed"

\* "except Exception as e" around the body of the loop: the error is printed
\* and the loop goes on with the next item
after_exception(i) == after_item(i)

\* the failure counted twice
count_failure_twice(n) == n + 2

\* failed += 1
count_failure(n) == n + 1

\* no try/except around client.get_balance(): its exception ends the run
after_balance_propagating(raised) ==
    IF raised THEN "crashed" ELSE "init_metadata"

\* the try/except around client.get_balance(): whether it raised or not,
\* generate_gallery goes on to build the manifest
after_balance(raised) == "init_metadata"

\* metadata["images"].insert(0, {...})
prepend_entry(images, config) == << metadata_entry(config) >> \o images

\* metadata["images"].append({...})
append_entry(images, config) == Append(images, metadata_entry(config))

DriverInit ==
    /\ args \in { "list", "dry_run", "full" }
    /\ env_api_key \in { NoKey, "", "sk-test" }
    /\ requests_installed \in BOOLEAN
    /\ pc = "main"
    /\ exit_code = -1
    /\ images_dir_exists \in BOOLEAN
    /\ mkdir_calls = 0
    /\ files = [f \in FileNames |-> "absent"]
    /\ writes = <<>>
    /\ http_log = <<>>
    /\ api_calls = <<>>
    /\ balance_status = "unchecked"
    /\ metadata = <<>>
    /\ metadata_file = NoManifest
    /\ successful = 0
    /\ failed = 0
    /\ idx = 0
    /\ response = NoResponse
    /\ log_line = ""

\* __main__ with --list: list_existing_images only reads IMAGES_DIR
cli_list ==
    /\ pc = "main" /\ args = "list"
    /\ pc' = "done"
    /\ exit_code' = 0
    /\ UNCHANGED <<args, env_api_key, requests_installed, images_dir_exists,
                   mkdir_calls, files, writes, http_log, api_calls,
                   balance_status, metadata, metadata_file, successful, failed,
                   idx, response, log_line, poll_vars>>

\* __main__ with --dry-run: prints the planned requests
cli_dry_run ==
    /\ pc = "main" /\ args = "dry_run"
    /\ pc' = "done"
    /\ exit_code' = 0
    /\ UNCHANGED <<args, env_api_key, requests_installed, images_dir_exists,
                   mkdir_calls, files, writes, http_log, api_calls,
                   balance_status, metadata, metadata_file, successful, failed,
                   idx, response, log_line, poll_vars>>

\* generate_gallery, "Check for API key": sys.exit(1) when it is not set
check_api_key ==
    /\ pc = "main" /\ args = "full"
    /\ IF ~Truthy(env_api_key)
       THEN pc' = "exited" /\ exit_code' = 1
       ELSE pc' = "mkdir" /\ exit_code' = exit_code
    /\ UNCHANGED <<args, env_api_key, requests_installed, images_dir_exists,
                   mkdir_calls, files, writes, http_log, api_calls,
                   balance_status, metadata, metadata_file, successful, failed,
                   idx, response, log_line, poll_vars>>

\* generate_gallery, "Ensure directories exist" and "Initialize client";
\* a mkdir that raises is not caught and ends the process
ensure_directories ==
    /\ pc = "mkdir"
    /\ mkdir_calls' = mkdir_calls + 1
    /\ \E ok \in BOOLEAN :
         IF ok
         THEN images_dir_exists' = TRUE /\ pc' = "balance" /\ exit_code' = exit_code
         ELSE images_dir_exists' = images_dir_exists /\ pc' = "crashed"
              /\ exit_code' = 1
    /\ UNCHANGED <<args, env_api_key, requests_installed, files, writes,
                   http_log, api_calls, balance_status, metadata,
                   metadata_file, successful, failed, idx, response, log_line,
                   poll_vars>>

\* generate_gallery, "Check balance first": try get_balance, except Exception
check_balance ==
    /\ pc = "balance"
    /\ \E outcome \in BalanceOutcomes :
         LET r == get_balance(client_api_key(env_api_key, env_api_key),
                              requests_installed, outcome)
         IN  /\ http_log' = http_log \o r.wire
             /\ balance_status' = IF r.raised THEN "failed" ELSE "ok"
             /\ pc' = after_balance(r.raised)
    /\ UNCHANGED <<args, env_api_key, requests_installed, exit_code,
                   images_dir_exists, mkdir_calls, files, writes, api_calls,
                   metadata, metadata_file, successful, failed, idx, response,
                   log_line, poll_vars>>

\* generate_gallery, "Generate images": the empty manifest and the counters
init_metadata ==
    /\ pc = "init_metadata"
    /\ metadata' = <<>>
    /\ successful' = 0
    /\ failed' = 0
    /\ idx' = 1
    /\ pc' = after_item(0)
    /\ UNCHANGED <<args, env_api_key, requests_installed, exit_code,
                   images_dir_exists, mkdir_calls, files, writes, http_log,
                   api_calls, balance_status, metadata_file, response,
                   log_line, poll_vars>>

\* One turn of the loop up to the return of client.generate_image; an
\* exception lands in "except Exception", which counts the item as failed.
generate_item ==
    /\ pc = "generate"
    /\ LET config == GALLERY_IMAGES[idx]
       IN  /\ api_calls' = Append(api_calls, config.id)
           /\ \E outcome \in GenerateOutcomes :
                LET r == generate_image(config,
                                        client_api_key(env_api_key, env_api_key),
                                        requests_installed, outcome)
                IN  /\ http_log' = http_log \o r.wire
                    /\ IF r.raised
                       THEN /\ failed' = count_failure(failed)
                            /\ log_line' = "error_generating"
                            /\ response' = NoResponse
                            /\ idx' = idx + 1
                            /\ pc' = after_exception(idx)
                       ELSE /\ failed' = failed
                            /\ log_line' = "generating"
                            /\ response' = r.result
                            /\ idx' = idx
                            /\ pc' = "handle"
    /\ UNCHANGED <<args, env_api_key, requests_installed, exit_code,
                   images_dir_exists, mkdir_calls, files, writes,
                   balance_status, metadata, metadata_file, successful,
                   poll_vars>>

\* The rest of the turn: no images, or save the first image and record it.
handle_response ==
    /\ pc = "handle"
    /\ LET config == GALLERY_IMAGES[idx]
           name   == config_name(config)
       IN  IF ~has_images(response)
           THEN /\ log_line' = "no_images"
                /\ failed' = count_failure(failed)
                /\ UNCHANGED <<files, writes, metadata, successful>>
           ELSE \E io \in IoOutcomes :
                  LET saved == save_base64_image(response.images.v[1], io)
                  IN  /\ files' = IF saved.file = "untouched" THEN files
                                  ELSE [files EXCEPT ![name] = saved.file]
                      /\ writes' = IF saved.file = "untouched" THEN writes
                                   ELSE Append(writes, name)
                      /\ IF saved.ret
                         THEN /\ metadata' = append_entry(metadata, config)
                              /\ successful' = successful + 1
                              /\ failed' = failed
                              /\ log_line' = "saved"
                         ELSE /\ metadata' = metadata
                              /\ successful' = successful
                              /\ failed' = count_failure(failed)
                              /\ log_line' = "save_failed"
    /\ response' = NoResponse
    /\ idx' = idx + 1
    /\ pc' = after_item(idx)
    /\ UNCHANGED <<args, env_api_key, requests_installed, exit_code,
                   images_dir_exists, mkdir_calls, http_log, api_calls,
                   balance_status, metadata_file, poll_vars>>

\* generate_gallery, "Save metadata": METADATA_FILE is opened with "w" and
\* the manifest dumped into it; an error here is not caught
save_metadata ==
    /\ pc = "save_metadata"
    /\ \E io \in IoOutcomes :
         CASE io = "ok" ->
                /\ metadata_file' = [state |-> "written", images |-> metadata]
                /\ pc' = "summary" /\ exit_code' = exit_code
           [] io = "open_fails" ->
                /\ metadata_file' = metadata_file
                /\ pc' = "crashed" /\ exit_code' = 1
           [] io = "write_fails" ->
                /\ metadata_file' = [state |-> "truncated", images |-> <<>>]
                /\ pc' = "crashed" /\ exit_code' = 1
    /\ UNCHANGED <<args, env_api_key, requests_installed, images_dir_exists,
                   mkdir_calls, files, writes, http_log, api_calls,
                   balance_status, metadata, successful, failed, idx, response,
                   log_line, poll_vars>>

\* generate_gallery, "Summary": the tally is printed and the process ends
summary ==
    /\ pc = "summary"
    /\ pc' = "done"
    /\ exit_code' = 0
    /\ UNCHANGED <<args, env_api_key, requests_installed, images_dir_exists,
                   mkdir_calls, files, writes, http_log, api_calls,
                   balance_status, metadata, metadata_file, successful, failed,
                   idx, response, log_line, poll_vars>>

----------------------------------------------------------------------------
(* PixelLabClient._poll_background_job(job_id, max_wait) *)

\* the "data" object of a status response
JobData(t, status, tag) == [t |-> t, status |-> status, tag |-> tag]

NoJobData == JobData("none", "<none>", "")

StatusResponse(kind, data, error) == [kind |-> kind, data |-> data, error |-> error]

\* What GET /background-jobs/{id} can come to: the request fails, or a JSON
\* body whose "data" is missing, null, or an object with a status (or none).
PollOutcomes ==
    { StatusResponse(k, NoJobData, "<none>") : k \in { "transport_error", "http_error" } }
        \cup { StatusResponse("json", JobData(t, "<none>", ""), "<none>") :
                 t \in { "missing", "null" } }
        \cup { StatusResponse("json", JobData("obj", st, "progress"), "<none>") :
                 st \in { "pending", "<none>" } }
        \cup { StatusResponse("json", JobData("obj", "completed", tag), "<none>") :
                 tag \in { "result-a", "result-b" } }
        \cup { StatusResponse("json", JobData("obj", "failed", "progress"), e) :
                 e \in { "<none>", "out of credits" } }

\* the 2 of time.sleep(2)
PollInterval == 2

\* the default of max_wait
DefaultMaxWait == 300

\* the loop condition with <= for <
within_wait_inclusive(time, start, limit) == time - start <= limit

\* the condition of the while loop: time.time() - start_time < max_wait
within_wait(time, start, limit) == time - start < limit

\* the loop without its "failed" branch
poll_dispatch_without_failed(status) ==
    CASE status = "completed" -> "returned"
      [] OTHER -> "sleep"

\* what the loop does with a status: return, raise, or sleep and poll again
poll_dispatch(status) ==
    CASE status = "completed" -> "returned"
      [] status = "failed" -> "job_failed"
      [] OTHER -> "sleep"

NoPollResult == [kind |-> "running", data |-> NoJobData, error |-> "<none>"]

PollEnded == { "returned", "job_failed", "timeout", "raised" }

PollIdle ==
    /\ poll_pc = "idle"
    /\ max_wait = DefaultMaxWait
    /\ start_time = 0
    /\ now = 0
    /\ poll_requests = 0
    /\ poll_seen = <<>>
    /\ poll_result = NoPollResult

PollInit ==
    /\ poll_pc = "start"
    /\ max_wait \in -1..MaxWaitBound
    /\ start_time = 0
    /\ now \in { 0, 10 }
    /\ poll_requests = 0
    /\ poll_seen = <<>>
    /\ poll_result = NoPollResult

\* start_time = time.time()
poll_start ==
    /\ poll_pc = "start"
    /\ start_time' = now
    /\ poll_pc' = "check"
    /\ UNCHANGED <<max_wait, now, poll_requests, poll_seen, poll_result,
                   driver_vars>>

\* while time.time() - start_time < max_wait: ... else raise TimeoutError
poll_check ==
    /\ poll_pc = "check"
    /\ IF within_wait(now, start_time, max_wait)
       THEN poll_pc' = "request" /\ poll_result' = poll_result
       ELSE /\ poll_pc' = "timeout"
            /\ poll_result' = [kind |-> "TimeoutError", data |-> NoJobData,
                               error |-> "<none>"]
    /\ UNCHANGED <<max_wait, start_time, now, poll_requests, poll_seen,
                   driver_vars>>

\* The body of the loop up to the sleep: one status request, then return on
\* "completed", raise RuntimeError on "failed", else go to sleep.
poll_request ==
    /\ poll_pc = "request"
    /\ \E outcome \in PollOutcomes, took \in 0..MaxRequestDelay :
         LET r == make_request("GET", "/background-jobs/job", NoBody,
                               client_api_key(NoKey, env_api_key),
                               requests_installed, outcome)
             \* status = response.get("data", {}).get("status")
             status == IF r.json.data.t = "obj" THEN r.json.data.status ELSE "<none>"
             next   == poll_dispatch(status)
         IN  /\ poll_requests' = poll_requests + Len(r.wire)
             /\ now' = IF r.wire # <<>> THEN now + took ELSE now
             /\ IF r.raised \/ r.json.data.t = "null"
                THEN \* the request raised, or None.get("status") did
                     /\ poll_pc' = "raised"
                     /\ poll_seen' = poll_seen
                     /\ poll_result' = [kind |-> "RequestError", data |-> NoJobData,
                                        error |-> "<none>"]
                ELSE /\ poll_seen' = Append(poll_seen,
                                            [data |-> r.json.data,
                                             error |-> r.json.error,
                                             elapsed |-> now' - start_time])
                     /\ poll_pc' = next
                     /\ poll_result' =
                          CASE next = "returned" ->
                                 \* return response.get("data", {})
                                 [kind |-> "data", data |-> r.json.data,
                                  error |-> "<none>"]
                            [] next = "job_failed" ->
                                 \* raise RuntimeError(... response.get('error'))
                                 [kind |-> "RuntimeError", data |-> NoJobData,
                                  error |-> r.json.error]
                            [] OTHER -> poll_result
    /\ UNCHANGED <<max_wait, start_time, driver_vars>>

\* time.sleep(2)
poll_sleep ==
    /\ poll_pc = "sleep"
    /\ \E extra \in 0..MaxSleepJitter : now' = now + PollInterval + extra
    /\ poll_pc' = "check"
    /\ UNCHANGED <<max_wait, start_time, poll_requests, poll_seen, poll_result,
                   driver_vars>>

----------------------------------------------------------------------------
(* The specifications *)

Init == DriverInit /\ PollIdle

Next ==
    \/ cli_list
    \/ cli_dry_run
    \/ check_api_key
    \/ ensure_directories
    \/ check_balance
    \/ init_metadata
    \/ generate_item
    \/ handle_response
    \/ save_metadata
    \/ summary

\* a full run, a listing or a dry run of scripts/generate_gallery.py
Spec == Init /\ [][Next]_vars

PollStartState ==
    /\ DriverInit /\ args = "full" /\ ~images_dir_exists
    /\ PollInit

PollNext ==
    \/ poll_start
    \/ poll_check
    \/ poll_request
    \/ poll_sleep

\* one call of _poll_background_job; the code is sequential and never waits
\* on anything but the request and the sleep, so a step that can be taken is
\* taken
PollSpec == PollStartState /\ [][PollNext]_vars /\ WF_vars(PollNext)

----------------------------------------------------------------------------
(* What the properties below are stated with. *)

ItemIds == << "wizard", "knight", "dragon", "spaceship", "robot", "treasure" >>

ExpectedNames ==
    << "wizard_128x128.png", "knight_128x128.png", "dragon_128x128.png",
       "spaceship_128x128.png", "robot_128x128.png", "treasure_128x128.png" >>

\* position of an id in GALLERY_IMAGES, 0 when it is not there
IndexOfId(id) ==
    IF \E i \in 1..NumImages : ItemIds[i] = id
    THEN CHOOSE i \in 1..NumImages : ItemIds[i] = id
    ELSE 0

Occurrences(seq, x) == Cardinality({ k \in DOMAIN seq : seq[k] = x })

LoopOver == { "save_metadata", "summary", "done" }

\* the first image of the current response is a string that decodes
FirstImageDecodes ==
    LET first == response.images.v[1]
    IN  /\ first.t = "str"
        /\ b64decode(IF \E k \in DOMAIN first.v : first.v[k] = ","
                     THEN split_comma_1(first.v)
                     ELSE first.v).ok

\* the manifest grew by exactly one entry, which describes the item at i
OneEntryAppendedFor(i) ==
    /\ Len(metadata') = Len(metadata) + 1
    /\ SubSeq(metadata', 1, Len(metadata)) = metadata
    /\ LET e == metadata'[Len(metadata')]
       IN  /\ e.filename = ExpectedNames[i]
           /\ e.id = ItemIds[i]
           /\ e.width = GALLERY_IMAGES[i].width
           /\ e.height = GALLERY_IMAGES[i].height
           /\ e.seed = GALLERY_IMAGES[i].seed

\* exactly one file was written, the one of the item at i, and completely
OneFileWrittenFor(i) ==
    /\ writes' = Append(writes, ExpectedNames[i])
    /\ \A f \in DOMAIN files :
         files'[f] = IF f = ExpectedNames[i] THEN "complete" ELSE files[f]

----------------------------------------------------------------------------
(* C1: in a full run no failure on an item aborts the batch. While the loop *)
(* runs, the items before the current one have each been counted exactly    *)
(* once and generate_image has been called for each in list order; when the *)
(* loop is over successful + failed is the number of items; and the run     *)
(* only ever crashes outside the loop (at mkdir or at the manifest write).  *)
C1_FailuresIsolated ==
    args = "full" =>
      /\ pc \in { "generate", "handle" } =>
            /\ idx \in 1..NumImages
            /\ successful + failed = idx - 1
            /\ api_calls = SubSeq(ItemIds, 1, IF pc = "handle" THEN idx ELSE idx - 1)
      /\ pc \in LoopOver =>
            /\ idx = NumImages + 1
            /\ successful + failed = NumImages
            /\ api_calls = ItemIds
      /\ pc = "crashed" =>
            \/ idx = 0
            \/ /\ idx = NumImages + 1
               /\ successful + failed = NumImages
               /\ api_calls = ItemIds

\* a finished run in which the first item's save failed half-way, three
\* items failed in all and the last item was still generated and recorded
C1_Witness ==
    /\ pc = "done" /\ args = "full"
    /\ files[ExpectedNames[1]] = "incomplete"
    /\ failed = 3 /\ successful = 3
    /\ metadata[Len(metadata)].id = "treasure"

(* C2 as amended: for a result with a non-empty images list, if the first   *)
(* image decodes and is written without an I/O error, exactly one PNG named *)
(* <id>_<width>x<height>.png is written and exactly one manifest entry with *)
(* the item's id, width, height and seed is appended; if it does not decode *)
(* or the write fails, no entry is appended, no complete file appears and   *)
(* the item is counted as failed.                                           *)
C2_SavedImageRecorded ==
    [][ (pc = "handle" /\ has_images(response)) =>
          IF FirstImageDecodes
          THEN \/ /\ OneEntryAppendedFor(idx)
                  /\ OneFileWrittenFor(idx)
                  /\ successful' = successful + 1
                  /\ failed' = failed
               \/ /\ metadata' = metadata
                  /\ files'[ExpectedNames[idx]] # "complete"
                  /\ successful' = successful
                  /\ failed' = failed + 1
          ELSE /\ metadata' = metadata
               /\ files' = files
               /\ writes' = writes
               /\ successful' = successful
               /\ failed' = failed + 1 ]_vars

\* the first item was saved and recorded, and the loop is at the second
C2_Witness ==
    /\ pc = "generate" /\ idx = 2 /\ log_line = "saved"
    /\ files[ExpectedNames[1]] = "complete"
    /\ writes = << ExpectedNames[1] >>
    /\ Len(metadata) = 1 /\ metadata[1].id = "wizard"

(* C2 as claimed: every successful result with a non-empty images list      *)
(* makes the driver write exactly one PNG file and append exactly one       *)
(* manifest entry.                                                          *)
C2_Original ==
    [][ (pc = "handle" /\ response.success /\ has_images(response)) =>
          /\ OneEntryAppendedFor(idx)
          /\ OneFileWrittenFor(idx) ]_vars

(* C3: a result with an empty (or missing, or null) images list writes no   *)
(* file, appends no manifest entry, adds one to failed and leaves the loop  *)
(* at the next item (or at the manifest write after the last one).          *)
C3_NoImagesCountedAsFailure ==
    [][ (pc = "handle" /\ ~(response.images.t = "list" /\ Len(response.images.v) > 0)) =>
          /\ files' = files
          /\ writes' = writes
          /\ metadata' = metadata
          /\ successful' = successful
          /\ failed' = failed + 1
          /\ idx' = idx + 1
          /\ pc' = IF idx < NumImages THEN "generate" ELSE "save_metadata" ]_vars

\* the third item came back without images and the loop is at the fourth
C3_Witness ==
    /\ pc = "generate" /\ idx = 4 /\ log_line = "no_images"
    /\ files[ExpectedNames[3]] = "absent"
    /\ failed >= 1

(* C4: the manifest on disk holds exactly one entry for every item whose    *)
(* file was saved and none for the others, in the order of GALLERY_IMAGES,  *)
(* and as many entries as the success count reports.                        *)
C4_ManifestMatchesSuccesses ==
    metadata_file.state = "written" =>
      LET imgs == metadata_file.images
      IN  /\ Len(imgs) = successful
          /\ successful + failed = NumImages
          /\ \A i \in 1..NumImages :
               Cardinality({ k \in DOMAIN imgs : imgs[k].id = ItemIds[i] })
                 = IF files[ExpectedNames[i]] = "complete" THEN 1 ELSE 0
          /\ \A k, l \in DOMAIN imgs :
               k < l => IndexOfId(imgs[k].id) < IndexOfId(imgs[l].id)

\* a run with 4 successes and 2 failures whose manifest was written
C4_Witness ==
    /\ pc = "done" /\ metadata_file.state = "written"
    /\ successful = 4 /\ failed = 2
    /\ Len(metadata_file.images) = 4
    /\ files[ExpectedNames[2]] # "complete"
    /\ files[ExpectedNames[5]] # "complete"

(* C7: with PIXELLAB_API_KEY unset or empty a full run leaves main only by  *)
(* sys.exit(1), with no HTTP request issued, no generate_image call, no     *)
(* mkdir and no manifest written.                                           *)
C7_MissingKeyAborts ==
    (args = "full" /\ env_api_key \in { NoKey, "" } /\ pc # "main") =>
      /\ pc = "exited"
      /\ exit_code = 1
      /\ http_log = <<>>
      /\ api_calls = <<>>
      /\ mkdir_calls = 0
      /\ writes = <<>>
      /\ metadata_file = NoManifest

\* a full run with an empty key has exited
C7_Witness == pc = "exited" /\ exit_code = 1 /\ env_api_key = "" /\ args = "full"

(* C8: generate_image is called once per item, in list order, and each call *)
(* sends one POST /generate-image-v2 carrying the item's description, size  *)
(* and seed (none when requests cannot be imported); at the end of the loop *)
(* every item has been called for.                                          *)
C8_OneCallPerItem ==
    LET posts == SelectSeq(http_log, LAMBDA r : r.method = "POST")
    IN  /\ Len(api_calls) <= NumImages
        /\ \A i \in DOMAIN api_calls : api_calls[i] = ItemIds[i]
        /\ Len(posts) = IF requests_installed THEN Len(api_calls) ELSE 0
        /\ \A i \in DOMAIN posts :
             /\ posts[i].endpoint = "/generate-image-v2"
             /\ posts[i].body.description = GALLERY_IMAGES[i].description
             /\ posts[i].body.image_size.width = GALLERY_IMAGES[i].width
             /\ posts[i].body.image_size.height = GALLERY_IMAGES[i].height
             /\ posts[i].body.seed = GALLERY_IMAGES[i].seed
        /\ (args = "full" /\ pc \in LoopOver) => Len(api_calls) = NumImages

\* the happy path: every item saved, one GET /balance and six POSTs sent
C8_Witness ==
    /\ pc = "done" /\ successful = NumImages /\ failed = 0
    /\ Len(http_log) = NumImages + 1
    /\ api_calls = ItemIds

(* C9: when get_balance has failed, the run neither exits nor crashes on    *)
(* it, the counters start at zero, failed counts only the items that were   *)
(* processed without getting a manifest entry, and every item is still      *)
(* generated.                                                               *)
C9_BalanceFailureSwallowed ==
    balance_status = "failed" =>
      /\ pc \notin { "main", "mkdir", "balance", "exited" }
      /\ pc = "crashed" => idx = NumImages + 1
      /\ pc = "init_metadata" =>
            failed = 0 /\ successful = 0 /\ metadata = <<>> /\ api_calls = <<>>
      /\ idx >= 1 =>
            /\ successful = Len(metadata)
            /\ failed = (idx - 1) - Len(metadata)
      /\ pc \in LoopOver => api_calls = ItemIds /\ idx = NumImages + 1

\* the balance check failed and every item was then generated and saved
C9_Witness ==
    /\ balance_status = "failed" /\ pc = "done"
    /\ successful = NumImages /\ failed = 0
    /\ Len(metadata_file.images) = NumImages

(* C10: at every point of a run every entry of the in-memory manifest names *)
(* the file <id>_<width>x<height>.png of its item, that file has been       *)
(* written completely by this run, exactly once, and no two entries name    *)
(* the same file.                                                           *)
C10_EntriesHaveFiles ==
    \A k \in DOMAIN metadata :
      LET e == metadata[k]
          i == IndexOfId(e.id)
      IN  /\ i # 0
          /\ e.filename = ExpectedNames[i]
          /\ files[e.filename] = "complete"
          /\ Occurrences(writes, e.filename) = 1
          /\ \A l \in DOMAIN metadata : l # k => metadata[l].filename # e.filename

\* mid-run, two entries recorded while another item's file is half-written
C10_Witness ==
    /\ pc = "handle" /\ Len(metadata) = 2
    /\ \E f \in DOMAIN files : files[f] = "incomplete"

----------------------------------------------------------------------------
(* _poll_background_job *)

\* the status read out of the k-th response seen
SeenStatus(k) ==
    IF poll_seen[k].data.t = "obj" THEN poll_seen[k].data.status ELSE "<none>"

Terminal == { "completed", "failed" }

\* the poll stops at the first terminal status and reports it
PollStopsAtTerminal ==
    /\ \A k \in 1..(Len(poll_seen) - 1) : SeenStatus(k) \notin Terminal
    /\ poll_pc = "returned" <=>
         (poll_seen # <<>> /\ SeenStatus(Len(poll_seen)) = "completed")
    /\ poll_pc = "job_failed" <=>
         (poll_seen # <<>> /\ SeenStatus(Len(poll_seen)) = "failed")
    /\ poll_pc = "returned" =>
         /\ poll_result.kind = "data"
         /\ poll_result.data = poll_seen[Len(poll_seen)].data
         /\ poll_requests = Len(poll_seen)
    /\ poll_pc = "job_failed" =>
         /\ poll_result.kind = "RuntimeError"
         /\ poll_result.error = poll_seen[Len(poll_seen)].error
         /\ poll_requests = Len(poll_seen)

\* once the poll has ended no request is issued; a non-terminal status is
\* followed by a sleep of at least two seconds and a new look at the clock
PollStepsAfterStatus ==
    /\ poll_pc \in PollEnded => poll_requests' = poll_requests
    /\ (poll_pc = "request" /\ Len(poll_seen') > Len(poll_seen)
          /\ poll_seen'[Len(poll_seen')].data.status \notin Terminal)
         => poll_pc' = "sleep"
    /\ poll_pc = "sleep" =>
         /\ poll_pc' = "check"
         /\ now' >= now + 2
         /\ poll_requests' = poll_requests

(* C5 as amended: the poll stops at the first terminal status, returning    *)
(* the data payload of the "completed" response or raising with the error   *)
(* of the "failed" one, and issues no request afterwards; a non-terminal    *)
(* status leads to a 2-second sleep, after which another poll follows only  *)
(* if less than max_wait seconds have elapsed, and TimeoutError otherwise.  *)
C5_PollStopsAtFirstTerminal ==
    /\ []PollStopsAtTerminal
    /\ [][ /\ PollStepsAfterStatus
           /\ (poll_pc = "check" /\ poll_seen # <<>>) =>
                 poll_pc' = IF now - start_time < max_wait
                            THEN "request" ELSE "timeout" ]_vars

\* the first poll saw "pending", the second "completed", and its data came back
C5_Witness ==
    /\ poll_pc = "returned"
    /\ Len(poll_seen) = 2
    /\ poll_seen[1].data.status = "pending"
    /\ poll_result.data.tag = "result-b"
    /\ poll_requests = 2

(* C5 as claimed: the same, with every non-terminal status leading to a     *)
(* sleep followed by another poll.                                          *)
C5_Original ==
    /\ []PollStopsAtTerminal
    /\ [][ /\ PollStepsAfterStatus
           /\ (poll_pc = "check" /\ poll_seen # <<>>) => poll_pc' = "request" ]_vars

\* a request is only ever issued while less than max_wait seconds have
\* elapsed, so none at all when max_wait <= 0
PollRequestsWithinWait ==
    /\ [][ poll_requests' # poll_requests => now - start_time < max_wait ]_vars
    /\ []((max_wait <= 0 /\ poll_pc \in PollEnded) =>
            (poll_pc = "timeout" /\ poll_requests = 0))

(* C6 as amended: _poll_background_job always ends; if no status request it *)
(* issued came back with a terminal status (and none raised) it has raised  *)
(* TimeoutError, with at least max_wait seconds elapsed, whereas a terminal *)
(* status that arrives after max_wait seconds, in answer to a request       *)
(* issued before, is still returned or raised; a request is only ever       *)
(* issued while less than max_wait seconds have elapsed; and with           *)
(* max_wait <= 0 it raises TimeoutError without any request.                *)
C6_PollTimesOut ==
    /\ <>(poll_pc \in PollEnded)
    /\ []((poll_pc \in PollEnded /\ poll_pc # "raised"
             /\ \A k \in DOMAIN poll_seen : SeenStatus(k) \notin Terminal) =>
            /\ poll_pc = "timeout"
            /\ poll_result.kind = "TimeoutError"
            /\ now - start_time >= max_wait)
    /\ [](poll_pc = "timeout" =>
            \A k \in DOMAIN poll_seen : SeenStatus(k) \notin Terminal)
    /\ PollRequestsWithinWait

(* C6 as claimed: if no terminal status was reported before max_wait        *)
(* seconds had elapsed, the poll ends with TimeoutError; the rest as above. *)
C6_Original ==
    /\ <>(poll_pc \in PollEnded)
    /\ []((poll_pc \in PollEnded /\ poll_pc # "raised"
             /\ \A k \in DOMAIN poll_seen :
                  SeenStatus(k) \in Terminal => poll_seen[k].elapsed >= max_wait) =>
            /\ poll_pc = "timeout"
            /\ poll_result.kind = "TimeoutError")
    /\ PollRequestsWithinWait

\* the job stayed pending through two polls and the wait ran out
C6_Witness ==
    /\ poll_pc = "timeout"
    /\ max_wait > 0
    /\ poll_requests >= 2
    /\ \A k \in DOMAIN poll_seen : SeenStatus(k) = "pending"

====
